---- MODULE Spec2Model ----
(***************************************************************************)
(* Model of the terrain generator and SVG exporter of topo-map-plotz       *)
(* (class TopographicalMap and makeNoise2D).                               *)
(*                                                                         *)
(* Numbers.  A JavaScript Number is modelled as a fixed-point integer with *)
(* Unit steps per 1.0, plus three values standing for NaN, +Infinity and   *)
(* -Infinity.  Math.sin and Math.cos are their Taylor polynomials in that  *)
(* arithmetic.  Handlers run to completion (one JavaScript thread), so     *)
(* each handler is one action.                                             *)
(***************************************************************************)
EXTENDS Integers, Sequences, FiniteSets, TLC

VARIABLES
    perm,             \* the 512-slot table makeNoise2D built (2 * TableSize here)
    tableBuilds,      \* how many times makeNoise2D has run
    seed,             \* this.seed
    regens,           \* how many times generateNewMap has run
    vertices,         \* geometry.attributes.position.array, as <<[x, y, z], ...>>
    indices,          \* geometry.index.array, 0-based vertex numbers
    needsUpdate,      \* geometry.attributes.position.needsUpdate, until rendered
    matrixWorld,      \* this.terrain.matrixWorld: "identity" or "rotX"
    camera,           \* the camera's pose as last rendered (matrixWorldInverse)
    projectionMatrix, \* this.camera.projectionMatrix
    innerWidth,       \* window.innerWidth
    innerHeight,      \* window.innerHeight
    svgContent,       \* the document the last exportSVG handed to the download
    prevSvg,          \* the document of the export before it, NoDoc when the
                      \* seed, the camera or the window changed in between
    exportRun,        \* exports since the seed, camera or window last changed
    lastOp,           \* the handler that ran last
    rnd,              \* makeNoise2D's random source: rnd[i] is the draw at step i
    visArgs,          \* the arguments of an isTriangleVisible call
    visResult,        \* what that call returned
    raises            \* how many generateNewMap calls ended in an exception

vars == <<perm, tableBuilds, seed, regens, vertices, indices, needsUpdate,
          matrixWorld, camera, projectionMatrix, innerWidth, innerHeight,
          svgContent, prevSvg, exportRun, lastOp, rnd, visArgs, visResult, raises>>

(***************************************************************************)
(* Bounds of the model.                                                    *)
(***************************************************************************)
TableSize == 4       \* stands for the 256 entries that makeNoise2D shuffles
RandRes == 4         \* Math.random() returns r / RandRes, r in 0 .. RandRes-1
GridSegments == 2    \* stands for the 100 x 100 segments of the plane
MaxRegens == 2       \* generateNewMap calls followed
MaxRaises == 1       \* of them, calls that end in an exception

(***************************************************************************)
(* JavaScript numbers.                                                     *)
(***************************************************************************)
Unit == 1000
NaN == 2000000001
PosInf == 2000000000
NegInf == -2000000000

IsNaN(v) == v = NaN
IsInf(v) == v = PosInf \/ v = NegInf
IsFinite(v) == ~IsNaN(v) /\ ~IsInf(v)

Sign(v) == IF v > 0 THEN 1 ELSE IF v < 0 THEN -1 ELSE 0
SignedInf(s) == IF s > 0 THEN PosInf ELSE NegInf

\* floor(a / b) for finite a and finite b # 0
FloorDiv(a, b) == IF b > 0 THEN a \div b ELSE (0 - a) \div (0 - b)

\* a + b
JsAdd(a, b) ==
    IF IsNaN(a) \/ IsNaN(b) THEN NaN
    ELSE IF IsInf(a) /\ IsInf(b) THEN (IF a = b THEN a ELSE NaN)
    ELSE IF IsInf(a) THEN a
    ELSE IF IsInf(b) THEN b
    ELSE a + b

\* -a
JsNeg(a) ==
    IF IsNaN(a) THEN NaN
    ELSE IF a = PosInf THEN NegInf
    ELSE IF a = NegInf THEN PosInf
    ELSE 0 - a

\* a * b, the product left unscaled
JsMul(a, b) ==
    IF IsNaN(a) \/ IsNaN(b) THEN NaN
    ELSE IF IsInf(a) \/ IsInf(b)
         THEN (IF a = 0 \/ b = 0 THEN NaN ELSE SignedInf(Sign(a) * Sign(b)))
    ELSE a * b

\* a / b, the quotient left unscaled
JsDiv(a, b) ==
    IF IsNaN(a) \/ IsNaN(b) THEN NaN
    ELSE IF IsInf(a) /\ IsInf(b) THEN NaN
    ELSE IF IsInf(a) THEN SignedInf(Sign(a) * (IF b < 0 THEN -1 ELSE 1))
    ELSE IF IsInf(b) THEN 0
    ELSE IF b = 0 THEN (IF a = 0 THEN NaN ELSE SignedInf(Sign(a)))
    ELSE FloorDiv(a, b)

\* a < b
JsLess(a, b) == ~IsNaN(a) /\ ~IsNaN(b) /\ a < b

\* `${v}`
NumberToString(v) ==
    IF IsNaN(v) THEN "NaN"
    ELSE IF v = PosInf THEN "Infinity"
    ELSE IF v = NegInf THEN "-Infinity"
    ELSE ToString(v)

(***************************************************************************)
(* makeNoise2D: the permutation table.                                     *)
(***************************************************************************)
\* Swap with its last assignment lost: p[i] = p[n] and p[n] keeps its value
SwapOverwrites(p, i, n) == [k \in 1..Len(p) |-> IF k = i + 1 THEN p[n + 1] ELSE p[k]]

\* p with entries i and n exchanged (0-based positions)
Swap(p, i, n) == [k \in 1..Len(p) |-> IF k = i + 1 THEN p[n + 1]
                                      ELSE IF k = n + 1 THEN p[i + 1]
                                      ELSE p[k]]

\* Math.floor((i + 1) * random()) with random() = r / RandRes
ShuffleIndex(i, r) == ((i + 1) * r) \div RandRes

\* for (let i = 255; i > 0; i--) { n = ...; q = p[i]; p[i] = p[n]; p[n] = q; }
RECURSIVE Shuffle(_, _, _)
Shuffle(p, i, random) ==
    IF i <= 0 THEN p
    ELSE Shuffle(Swap(p, i, ShuffleIndex(i, random[i])), i - 1, random)

\* the table perm that makeNoise2D builds from the random source
makeNoise2D(random) ==
    LET p0 == [k \in 1..TableSize |-> k - 1]
        p == Shuffle(p0, TableSize - 1, random)
    IN  [k \in 1..(2 * TableSize) |-> p[((k - 1) % TableSize) + 1]]

\* permMod12[i] = perm[i] % 12
permMod12(table) == [k \in 1..Len(table) |-> table[k] % 12]

RandomSources == [1..(TableSize - 1) -> 0..(RandRes - 1)]

(***************************************************************************)
(* The noise closure and generateHeight.                                   *)
(***************************************************************************)
F2 == 366      \* 0.5 * (Math.sqrt(3.0) - 1.0)
G2 == 211      \* (3.0 - Math.sqrt(3.0)) / 6.0

\* Math.sin(x), |x| < 3
Sin(x) ==
    LET x2 == (x * x) \div Unit
        x3 == (x2 * x) \div Unit
        x5 == (((x3 * x) \div Unit) * x) \div Unit
    IN  x - (x3 \div 6) + (x5 \div 120)

\* Math.cos(y), |y| < 3
Cos(y) ==
    LET y2 == (y * y) \div Unit
        y4 == (y2 * y2) \div Unit
    IN  Unit - (y2 \div 2) + (y4 \div 24)

\* the closure makeNoise2D returns; it never reads the table
noise(x, y) ==
    LET s == ((x + y) * F2) \div Unit
        i == (x + s) \div Unit
        j == (y + s) \div Unit
        t == (i + j) * G2
        X0 == i * Unit - t
        Y0 == j * Unit - t
        x0 == x - X0
        y0 == y - Y0
        n0 == (x0 * x0 + y0 * y0) \div Unit
    IN  ((n0 * (Sin(x0) + Cos(y0))) \div Unit) \div 2

scale == 500   \* const scale = 0.5

generateHeight(x, y, sd) ==
    LET sx == (x * scale) \div Unit
        sy == (y * scale) \div Unit
    IN    noise(sx + sd, sy + sd)
        + (noise(sx * 2 + sd, sy * 2 + sd) \div 2)
        + (noise(sx * 4 + sd, sy * 4 + sd) \div 4)

SeedRange == 1000   \* Math.random() * 1000

\* this.seed = Math.random() * 1000, with Math.random() = r / RandRes
SeedOf(r) == (r * SeedRange * Unit) \div RandRes

(***************************************************************************)
(* The mesh: THREE.PlaneGeometry(10, 10, segments, segments).              *)
(***************************************************************************)
PlaneSize == 10     \* new THREE.PlaneGeometry(10, 10, 100, 100)

GridX1 == GridSegments + 1
NumVertices == GridX1 * GridX1
NumTriangles == 2 * GridSegments * GridSegments

\* vertex k (0-based) of the flat plane: x = ix * segment - half, y = -(iy * segment - half)
PlaneVertex(k) ==
    LET ix == k % GridX1
        iy == k \div GridX1
        half == (PlaneSize * Unit) \div 2
    IN  [x |-> ((ix * PlaneSize * Unit) \div GridSegments) - half,
         y |-> 0 - (((iy * PlaneSize * Unit) \div GridSegments) - half),
         z |-> 0]

PlaneVertices == [k \in 1..NumVertices |-> PlaneVertex(k - 1)]

\* two triangles per grid cell: (a, b, d) and (b, c, d)
PlaneIndices ==
    [n \in 1..(3 * NumTriangles) |->
        LET cell == (n - 1) \div 6
            ix == cell % GridSegments
            iy == cell \div GridSegments
            a == ix + GridX1 * iy
            b == ix + GridX1 * (iy + 1)
            c == (ix + 1) + GridX1 * (iy + 1)
            d == (ix + 1) + GridX1 * iy
        IN  <<a, b, d, b, c, d>>[((n - 1) % 6) + 1]]

\* for (let i = 0; i < vertices.length; i += 3) vertices[i + 2] = this.generateHeight(x, y)
\* (k counts vertices, from 1; the loop stops before vertex `stop`)
RECURSIVE HeightLoop(_, _, _, _)
HeightLoop(vs, k, stop, sd) ==
    IF k >= stop \/ k > Len(vs) THEN vs
    ELSE HeightLoop([vs EXCEPT ![k].z = generateHeight(vs[k].x, vs[k].y, sd)],
                    k + 1, stop, sd)

\* updateTerrain writing vertices[i + 1] (the y slot) instead of vertices[i + 2]
updateTerrainWritesY(vs, sd) ==
    [k \in 1..Len(vs) |-> [vs[k] EXCEPT !.y = generateHeight(vs[k].x, vs[k].y, sd)]]

\* updateTerrain's loop, run to its end
updateTerrain(vs, sd) == HeightLoop(vs, 1, Len(vs) + 1, sd)

\* createTerrain's geometry after its height loop
createTerrain(sd) == HeightLoop(PlaneVertices, 1, NumVertices + 1, sd)

(***************************************************************************)
(* The camera.                                                             *)
(***************************************************************************)
Near == 100            \* PerspectiveCamera(75, aspect, 0.1, 1000): near
Far == 1000000         \* far
TanHalfFov == 767      \* Math.tan(DEG2RAD * 0.5 * 75)

\* Poses OrbitControls can put the camera in; cs and sn are the cosine and
\* sine of its downward tilt.  InitialPose is position (0, 2, 5) looking at
\* the origin.
InitialPose == [cx |-> 0, cy |-> 2000, cz |-> 5000, cs |-> 928, sn |-> 371]
CameraPoses ==
    { InitialPose,
      [cx |-> 0, cy |-> 0, cz |-> 2000, cs |-> 1000, sn |-> 0],
      [cx |-> 0, cy |-> 0, cz |-> -6000, cs |-> 1000, sn |-> 0] }

WindowSizes == { <<800, 600>>, <<400, 400>>, <<800, 0>> }
InitialWindow == <<800, 600>>

\* camera.aspect = window.innerWidth / window.innerHeight
Aspect(w, h) == JsDiv(w * Unit, h)

\* PerspectiveCamera.updateProjectionMatrix: makePerspective(left, right, top, bottom, near, far)
updateProjectionMatrix(aspect) ==
    LET top == (Near * TanHalfFov) \div Unit
        height == 2 * top
        width == JsDiv(JsMul(aspect, height), Unit)
        left == JsNeg(JsDiv(width, 2))
        right == JsAdd(left, width)
        bottom == top - height
        rl == JsAdd(right, JsNeg(left))
    IN  [x |-> JsDiv(2 * Near * Unit, rl),
         y |-> (2 * Near * Unit) \div (top - bottom),
         a |-> JsDiv(JsMul(JsAdd(right, left), Unit), rl),
         b |-> ((top + bottom) * Unit) \div (top - bottom),
         c |-> 0 - (((Far + Near) * Unit) \div (Far - Near)),
         d |-> 0 - ((2 * Far * Near) \div (Far - Near))]

\* vector.applyMatrix4(this.terrain.matrixWorld)
applyMatrixWorld(m, v) ==
    IF m = "rotX" THEN [x |-> v.x, y |-> v.z, z |-> 0 - v.y] ELSE v

\* vector.project(camera): the view transform, the projection, the divide by w
project(cam, pm, v) ==
    LET dx == v.x - cam.cx
        dy == v.y - cam.cy
        dz == v.z - cam.cz
        xv == dx
        yv == (cam.cs * dy - cam.sn * dz) \div Unit
        zv == (cam.sn * dy + cam.cs * dz) \div Unit
        xc == JsDiv(JsAdd(JsMul(pm.x, xv), JsMul(pm.a, zv)), Unit)
        yc == JsDiv(JsAdd(JsMul(pm.y, yv), JsMul(pm.b, zv)), Unit)
        zc == JsAdd(JsDiv(JsMul(pm.c, zv), Unit), pm.d)
        wc == 0 - zv
    IN  [x |-> JsDiv(JsMul(xc, Unit), wc),
         y |-> JsDiv(JsMul(yc, Unit), wc),
         z |-> JsDiv(JsMul(zc, Unit), wc)]

\* one pass of projectToSVG's loop: the vertex to its screen point
ScreenPoint(m, cam, pm, w, h, v) ==
    LET vector == project(cam, pm, applyMatrixWorld(m, v))
    IN  [x |-> JsDiv(JsMul(JsAdd(vector.x, Unit), w), 2),
         y |-> JsDiv(JsMul(JsAdd(JsNeg(vector.y), Unit), h), 2),
         z |-> vector.z]

projectToSVGOf(vs, m, cam, pm, w, h) ==
    [k \in 1..Len(vs) |-> ScreenPoint(m, cam, pm, w, h, vs[k])]

projectToSVG ==
    projectToSVGOf(vertices, matrixWorld, camera, projectionMatrix,
                   innerWidth, innerHeight)

(***************************************************************************)
(* The SVG document.                                                       *)
(***************************************************************************)
\* isTriangleVisible with <= for <
isTriangleVisibleInclusive(a, b, c) ==
    /\ ~IsNaN(a.z) /\ a.z <= Unit
    /\ ~IsNaN(b.z) /\ b.z <= Unit
    /\ ~IsNaN(c.z) /\ c.z <= Unit

\* return a.z < 1 && b.z < 1 && c.z < 1
isTriangleVisible(a, b, c) ==
    JsLess(a.z, Unit) /\ JsLess(b.z, Unit) /\ JsLess(c.z, Unit)

\* `M${a.x},${a.y} L${b.x},${b.y} L${c.x},${c.y} Z `, as its pieces
PathGroup(a, b, c) ==
    << "M", NumberToString(a.x), NumberToString(a.y),
       "L", NumberToString(b.x), NumberToString(b.y),
       "L", NumberToString(c.x), NumberToString(c.y), "Z" >>

\* generateSVG's loop without the visibility test
RECURSIVE PathLoopEmitsAll(_, _, _, _)
PathLoopEmitsAll(points, idx, i, paths) ==
    IF i >= Len(idx) THEN paths
    ELSE PathLoopEmitsAll(points, idx, i + 3,
                          paths \o PathGroup(points[idx[i + 1] + 1],
                                             points[idx[i + 2] + 1],
                                             points[idx[i + 3] + 1]))

\* generateSVG's loop putting each group in front of the path
RECURSIVE PathLoopPrepends(_, _, _, _)
PathLoopPrepends(points, idx, i, paths) ==
    IF i >= Len(idx) THEN paths
    ELSE LET a == points[idx[i + 1] + 1]
             b == points[idx[i + 2] + 1]
             c == points[idx[i + 3] + 1]
         IN  PathLoopPrepends(points, idx, i + 3,
                              IF isTriangleVisible(a, b, c)
                              THEN PathGroup(a, b, c) \o paths
                              ELSE paths)

\* for (let i = 0; i < indices.length; i += 3) { ... paths += ... }   (i is 0-based)
RECURSIVE PathLoop(_, _, _, _)
PathLoop(points, idx, i, paths) ==
    IF i >= Len(idx) THEN paths
    ELSE LET a == points[idx[i + 1] + 1]
             b == points[idx[i + 2] + 1]
             c == points[idx[i + 3] + 1]
         IN  PathLoop(points, idx, i + 3,
                      IF isTriangleVisible(a, b, c)
                      THEN paths \o PathGroup(a, b, c)
                      ELSE paths)

generateSVG(points) ==
    [width |-> innerWidth, height |-> innerHeight,
     paths |-> PathLoop(points, indices, 0, << >>)]

NoDoc == [width |-> -1, height |-> -1, paths |-> << >>]

(***************************************************************************)
(* The state after the constructor, and the handlers.                      *)
(***************************************************************************)
NoArgs == << >>

\* the random sources followed from the constructor in Spec
InitRandomSources ==
    { [i \in 1..(TableSize - 1) |-> 0], [i \in 1..(TableSize - 1) |-> RandRes - 1] }

Seeds == { SeedOf(r) : r \in 0..(RandRes - 1) }

\* new TopographicalMap(): makeNoise2D(), createTerrain(), the first animate()
Init ==
    /\ rnd \in InitRandomSources
    /\ perm = makeNoise2D(rnd)
    /\ tableBuilds = 1
    /\ seed \in Seeds
    /\ regens = 0
    /\ vertices = createTerrain(seed)
    /\ indices = PlaneIndices
    /\ needsUpdate = FALSE
    /\ matrixWorld = "rotX"
    /\ camera = InitialPose
    /\ innerWidth = InitialWindow[1]
    /\ innerHeight = InitialWindow[2]
    /\ projectionMatrix = updateProjectionMatrix(Aspect(innerWidth, innerHeight))
    /\ svgContent = NoDoc
    /\ prevSvg = NoDoc
    /\ exportRun = 0
    /\ lastOp = "constructor"
    /\ raises = 0
    /\ visArgs = NoArgs
    /\ visResult = FALSE

\* generateNewMap that also calls makeNoise2D() again
GenerateNewMapRebuildsTable ==
    /\ regens < MaxRegens
    /\ \E r \in 0..(RandRes - 1) :
          /\ seed' = SeedOf(r)
          /\ vertices' = updateTerrain(vertices, seed')
    /\ rnd' \in InitRandomSources
    /\ perm' = makeNoise2D(rnd')
    /\ tableBuilds' = tableBuilds + 1
    /\ needsUpdate' = TRUE
    /\ regens' = regens + 1
    /\ lastOp' = "generateNewMap"
    /\ prevSvg' = NoDoc
    /\ exportRun' = 0
    /\ UNCHANGED <<raises, indices, matrixWorld, camera, projectionMatrix,
                   innerWidth, innerHeight, svgContent, visArgs, visResult>>

\* generateNewMap that updates the terrain before it assigns the new seed
GenerateNewMapStaleSeed ==
    /\ regens < MaxRegens
    /\ \E r \in 0..(RandRes - 1) : seed' = SeedOf(r)
    /\ vertices' = updateTerrain(vertices, seed)
    /\ needsUpdate' = TRUE
    /\ regens' = regens + 1
    /\ lastOp' = "generateNewMap"
    /\ prevSvg' = NoDoc
    /\ exportRun' = 0
    /\ UNCHANGED <<raises, perm, tableBuilds, indices, matrixWorld, camera,
                   projectionMatrix, innerWidth, innerHeight, svgContent,
                   rnd, visArgs, visResult>>

\* generateNewMap(): this.seed = Math.random() * 1000; this.updateTerrain()
GenerateNewMap ==
    /\ regens < MaxRegens
    /\ \E r \in 0..(RandRes - 1) :
          /\ seed' = SeedOf(r)
          /\ vertices' = updateTerrain(vertices, seed')
    /\ needsUpdate' = TRUE
    /\ regens' = regens + 1
    /\ lastOp' = "generateNewMap"
    /\ prevSvg' = NoDoc
    /\ exportRun' = 0
    /\ UNCHANGED <<raises, perm, tableBuilds, indices, matrixWorld, camera,
                   projectionMatrix, innerWidth, innerHeight, svgContent,
                   rnd, visArgs, visResult>>

\* exportSVG whose projection applies the world matrix to the geometry itself
ExportSVGInPlace ==
    /\ vertices' = [k \in 1..Len(vertices) |-> applyMatrixWorld(matrixWorld, vertices[k])]
    /\ svgContent' = generateSVG(projectToSVG)
    /\ prevSvg' = IF exportRun >= 1 THEN svgContent ELSE NoDoc
    /\ exportRun' = IF exportRun >= 1 THEN 2 ELSE 1
    /\ lastOp' = "exportSVG"
    /\ UNCHANGED <<raises, perm, tableBuilds, seed, regens, indices,
                   needsUpdate, matrixWorld, camera, projectionMatrix,
                   innerWidth, innerHeight, rnd, visArgs, visResult>>

\* exportSVG(): projectToSVG(), generateSVG(), the download
ExportSVG ==
    /\ svgContent' = generateSVG(projectToSVG)
    /\ prevSvg' = IF exportRun >= 1 THEN svgContent ELSE NoDoc
    /\ exportRun' = IF exportRun >= 1 THEN 2 ELSE 1
    /\ lastOp' = "exportSVG"
    /\ UNCHANGED <<raises, perm, tableBuilds, seed, regens, vertices, indices,
                   needsUpdate, matrixWorld, camera, projectionMatrix,
                   innerWidth, innerHeight, rnd, visArgs, visResult>>

\* the window takes another size and onWindowResize() runs
OnWindowResize ==
    /\ \E size \in WindowSizes :
          /\ size # <<innerWidth, innerHeight>>
          /\ innerWidth' = size[1]
          /\ innerHeight' = size[2]
    /\ projectionMatrix' = updateProjectionMatrix(Aspect(innerWidth', innerHeight'))
    /\ lastOp' = "onWindowResize"
    /\ prevSvg' = NoDoc
    /\ exportRun' = 0
    /\ UNCHANGED <<raises, perm, tableBuilds, seed, regens, vertices, indices,
                   needsUpdate, matrixWorld, camera, svgContent,
                   rnd, visArgs, visResult>>

\* animate(): controls.update() moves the camera (or not), render() updates
\* the world matrices and uploads the vertex buffer
Animate ==
    /\ camera' \in CameraPoses
    /\ matrixWorld' = "rotX"
    /\ needsUpdate' = FALSE
    /\ lastOp' = "animate"
    /\ prevSvg' = IF camera' = camera THEN prevSvg ELSE NoDoc
    /\ exportRun' = IF camera' = camera THEN exportRun ELSE 0
    /\ UNCHANGED <<raises, perm, tableBuilds, seed, regens, vertices, indices,
                   projectionMatrix, innerWidth, innerHeight, svgContent,
                   rnd, visArgs, visResult>>

Next == GenerateNewMap \/ ExportSVG \/ OnWindowResize \/ Animate

Spec == Init /\ [][Next]_vars

(***************************************************************************)
(* A regeneration whose height computation raises.  updateTerrain has no   *)
(* try/catch and writes in place: when this.noise.noise raises at vertex   *)
(* k, the exception leaves the loop with the vertices before k written     *)
(* and the needsUpdate line not reached.                                   *)
(***************************************************************************)
\* the vertices at which the raise is followed: the first, a middle one, the last
RaisePoints == { 1, (NumVertices \div 2) + 1, NumVertices }

GenerateNewMapRaises ==
    /\ regens < MaxRegens
    /\ raises < MaxRaises
    /\ \E r \in 0..(RandRes - 1), k \in RaisePoints :
          /\ seed' = SeedOf(r)
          /\ vertices' = HeightLoop(vertices, 1, k, seed')
    /\ regens' = regens + 1
    /\ raises' = raises + 1
    /\ lastOp' = "generateNewMapRaised"
    /\ prevSvg' = NoDoc
    /\ exportRun' = 0
    /\ UNCHANGED <<perm, tableBuilds, indices, needsUpdate, matrixWorld, camera,
                   projectionMatrix, innerWidth, innerHeight, svgContent,
                   rnd, visArgs, visResult>>

NextFault == Next \/ GenerateNewMapRaises

SpecFault == Init /\ [][NextFault]_vars

(***************************************************************************)
(* makeNoise2D on its own: every random source, then the call.             *)
(***************************************************************************)
\* the variables a specification of one function does not use
Unused ==
    /\ seed = 0
    /\ regens = 0
    /\ vertices = << >>
    /\ indices = << >>
    /\ needsUpdate = FALSE
    /\ matrixWorld = "identity"
    /\ camera = InitialPose
    /\ innerWidth = InitialWindow[1]
    /\ innerHeight = InitialWindow[2]
    /\ projectionMatrix = updateProjectionMatrix(Aspect(innerWidth, innerHeight))
    /\ svgContent = NoDoc
    /\ prevSvg = NoDoc
    /\ exportRun = 0
    /\ raises = 0

InitNoise ==
    /\ Unused
    /\ rnd \in RandomSources
    /\ perm = << >>
    /\ tableBuilds = 0
    /\ lastOp = "none"
    /\ visArgs = NoArgs
    /\ visResult = FALSE

CallMakeNoise2D ==
    /\ tableBuilds = 0
    /\ perm' = makeNoise2D(rnd)
    /\ tableBuilds' = 1
    /\ lastOp' = "makeNoise2D"
    /\ UNCHANGED <<raises, seed, regens, vertices, indices, needsUpdate, matrixWorld,
                   camera, projectionMatrix, innerWidth, innerHeight,
                   svgContent, prevSvg, exportRun, rnd, visArgs, visResult>>

SpecNoise == InitNoise /\ [][CallMakeNoise2D]_vars

(***************************************************************************)
(* isTriangleVisible on its own: three projected points, then the call.    *)
(***************************************************************************)
Depths == { -1500, 0, 500, 999, 1000, 1001, NaN, PosInf, NegInf }
ScreenXs == { 0, 400000 }
ScreenYs == { 300000, NaN }
VisPoints == [x : ScreenXs, y : {300000}, z : Depths]

InitVis ==
    /\ Unused
    /\ rnd = << >>
    /\ perm = << >>
    /\ tableBuilds = 0
    /\ lastOp = "none"
    /\ visArgs \in [1..3 -> VisPoints]
    /\ visResult = FALSE

CallIsTriangleVisible ==
    /\ lastOp = "none"
    /\ visResult' = isTriangleVisible(visArgs[1], visArgs[2], visArgs[3])
    /\ lastOp' = "isTriangleVisible"
    /\ UNCHANGED <<raises, perm, tableBuilds, seed, regens, vertices, indices,
                   needsUpdate, matrixWorld, camera, projectionMatrix,
                   innerWidth, innerHeight, svgContent, prevSvg, exportRun,
                   rnd, visArgs>>

SpecVis == InitVis /\ [][CallIsTriangleVisible]_vars

(***************************************************************************)
(* Properties.                                                             *)
(***************************************************************************)
\* the projected points an export in this state works on
ExportPoints == projectToSVG

\* triangle t (0-based) of the index list: its three projected points
TrianglePoints(points, t) ==
    << points[indices[3 * t + 1] + 1],
       points[indices[3 * t + 2] + 1],
       points[indices[3 * t + 3] + 1] >>

TriangleCount == Len(indices) \div 3

\* the triangles every one of whose projected depths is a number below 1
DepthBelowOne(p) == p.z # NaN /\ p.z < Unit
VisibleTriangles(points) ==
    { t \in 0..(TriangleCount - 1) :
        \A n \in 1..3 : DepthBelowOne(TrianglePoints(points, t)[n]) }

\* the closed groups of a path: its "Z" pieces
ClosedGroups(paths) == Cardinality({ n \in 1..Len(paths) : paths[n] = "Z" })

C2_TableIsDoubledPermutation ==
    lastOp = "makeNoise2D" =>
        /\ Len(perm) = 2 * TableSize
        /\ \A v \in 0..(TableSize - 1) :
              Cardinality({ k \in 1..Len(perm) : perm[k] = v }) = 2
        /\ \A i \in 1..TableSize : perm[i] = perm[i + TableSize]
        /\ (\A i \in DOMAIN rnd : rnd[i] = 0) => \E k \in 1..Len(perm) : perm[k] # 0

C2_Witness ==
    /\ lastOp = "makeNoise2D"
    /\ \A i \in DOMAIN rnd : rnd[i] = 0
    /\ perm # [k \in 1..(2 * TableSize) |-> (k - 1) % TableSize]

\* C3: regeneration changes only z: in every state the vertex count, every
\* vertex's x and y and the index list are those of the grid as built, and
\* a generateNewMap step leaves the camera (pose and projection) as it was.
C3_OnlyHeightsChange ==
    /\ [](/\ Len(vertices) = NumVertices
          /\ \A k \in 1..NumVertices :
                /\ vertices[k].x = PlaneVertices[k].x
                /\ vertices[k].y = PlaneVertices[k].y
          /\ indices = PlaneIndices)
    /\ [][lastOp' = "generateNewMap" =>
             camera' = camera /\ projectionMatrix' = projectionMatrix]_vars

C3_Witness ==
    /\ regens = MaxRegens
    /\ lastOp = "generateNewMap"
    /\ \E k \in 1..NumVertices : vertices[k].z # 0

\* C4: isTriangleVisible(a, b, c) is true exactly when all three depths are
\* numbers strictly below 1; depths (0.5, 0.5, 1.0) are not visible and
\* (0.5, 0.5, 0.999) are; other screen x/y give the same answer.
C4_VisibleIffAllDepthsBelowOne ==
    lastOp = "isTriangleVisible" =>
        /\ visResult <=> \A n \in 1..3 : DepthBelowOne(visArgs[n])
        /\ <<visArgs[1].z, visArgs[2].z, visArgs[3].z>> = <<500, 500, 1000>>
              => ~visResult
        /\ <<visArgs[1].z, visArgs[2].z, visArgs[3].z>> = <<500, 500, 999>>
              => visResult
        /\ \A xs \in [1..3 -> ScreenXs], ys \in [1..3 -> ScreenYs] :
              isTriangleVisible([visArgs[1] EXCEPT !.x = xs[1], !.y = ys[1]],
                                [visArgs[2] EXCEPT !.x = xs[2], !.y = ys[2]],
                                [visArgs[3] EXCEPT !.x = xs[3], !.y = ys[3]])
                 = visResult

C4_Witness ==
    /\ lastOp = "isTriangleVisible"
    /\ <<visArgs[1].z, visArgs[2].z, visArgs[3].z>> = <<500, 500, 999>>
    /\ visArgs[1].x # visArgs[2].x
    /\ visResult

\* C5: the number of closed groups in the exported path equals the number
\* of index-list triangles whose three depths are below 1, and lies between
\* 0 and the triangle count.
C5_GroupsCountVisibleTriangles ==
    lastOp = "exportSVG" =>
        /\ ClosedGroups(svgContent.paths)
              = Cardinality(VisibleTriangles(ExportPoints))
        /\ ClosedGroups(svgContent.paths) \in 0..TriangleCount

C5_Witness ==
    /\ lastOp = "exportSVG"
    /\ ClosedGroups(svgContent.paths) > 0
    /\ ClosedGroups(svgContent.paths) < TriangleCount

\* C6: an export that follows another with the seed, the camera and the
\* window unchanged in between delivers the same document, and an export
\* step changes neither the seed, the vertex data nor the index list.
C6_ExportIsRepeatable ==
    /\ [](exportRun = 2 => svgContent = prevSvg)
    /\ [][lastOp' = "exportSVG" =>
             seed' = seed /\ vertices' = vertices /\ indices' = indices]_vars

C6_Witness ==
    /\ exportRun = 2
    /\ lastOp = "exportSVG"
    /\ svgContent.paths # << >>
    /\ regens > 0

C8_NonFiniteIsReported ==
    lastOp = "exportSVG" =>
        /\ \A n \in 1..Len(svgContent.paths) :
              svgContent.paths[n] \notin { "NaN", "Infinity", "-Infinity" }
        /\ \A t \in 0..(TriangleCount - 1) :
              (\E n \in 1..3 : ~IsFinite(TrianglePoints(ExportPoints, t)[n].z))
                 => t \in VisibleTriangles(ExportPoints)

\* C9: the path is the groups of the visible triangles in index-list order,
\* each group listing its vertices as (indices[i], indices[i+1], indices[i+2]).
C9_GroupsInIndexOrder ==
    lastOp = "exportSVG" =>
        LET points == ExportPoints
            vis == VisibleTriangles(points)
            \* the k-th visible triangle in increasing index position
            Nth(k) == CHOOSE t \in vis :
                         Cardinality({ u \in vis : u < t }) = k - 1
        IN  /\ Len(svgContent.paths) = 10 * Cardinality(vis)
            /\ \A k \in 1..Cardinality(vis) :
                  LET tp == TrianglePoints(points, Nth(k))
                  IN  SubSeq(svgContent.paths, 10 * (k - 1) + 1, 10 * k)
                         = PathGroup(tp[1], tp[2], tp[3])

C9_Witness ==
    /\ lastOp = "exportSVG"
    /\ Len(svgContent.paths) >= 20
    /\ SubSeq(svgContent.paths, 1, 10) # SubSeq(svgContent.paths, 11, 20)
    /\ Cardinality(VisibleTriangles(ExportPoints)) < TriangleCount

====
